---- MODULE Spec2Model ----
(***************************************************************************)
(* A model of the DeepL client of deepl.go: the Client, the credential    *)
(* kept in the process environment, the two operations TranslateSentence   *)
(* and GetAccountStatus, the shared responseParse, and the earlier         *)
(* TranslateSentence (part_002) that parses the response inline.           *)
(*                                                                         *)
(* A call is a sequence of steps of one goroutine: the entry of the        *)
(* operation up to os.LookupEnv, os.Getenv and the building of the         *)
(* request, HTTPClient.Do (the request leaves, the response header comes   *)
(* back), and responseParse (ioutil.ReadAll and the classification).       *)
(* The environment, the provider and the caller's context act in between.  *)
(***************************************************************************)
EXTENDS Integers, Sequences, FiniteSets, TLC

VARIABLES client, env, calls

vars == <<client, env, calls>>

\* The number of goroutines that call into the one Client.
NumCallers == 2

Callers == 1..NumCallers

-----------------------------------------------------------------------------
(* JSON documents, as encoding/json sees the bytes of a body.              *)

JEmpty == [t |-> "empty"]         \* a body of zero bytes
JInvalid == [t |-> "invalid"]     \* bytes that are not a JSON document
JNull == [t |-> "null"]
JStr(s) == [t |-> "string", s |-> s]
JNum(n) == [t |-> "number", n |-> n]
JArr(a) == [t |-> "array", a |-> a]
JObj(o) == [t |-> "object", o |-> o]

\* len(bodyBytes)
len(bodyBytes) == IF bodyBytes = JEmpty THEN 0 ELSE 1

\* json.Valid: Unmarshal checks the whole input before it stores anything.
checkValid(bodyBytes) == bodyBytes.t \notin {"empty", "invalid"}

\* The Go values the bodies are decoded into, and the nil pointer.
Nil == [t |-> "nil"]
ZeroTranslation == [DetectedSourceLanguage |-> "", Text |-> ""]
ZeroTranslateResponse == [t |-> "TranslateResponse", Translations |-> <<>>]
ZeroAccountStatus == [t |-> "AccountStatus", CharacterCount |-> 0, CharacterLimit |-> 0]
ZeroErrorResponse == [t |-> "ErrorResponse", ErrMessage |-> ""]

\* A JSON value stored into a string field: a string is stored, null leaves
\* the field alone, anything else is an UnmarshalTypeError and the field is
\* left alone while decoding goes on.
literalString(v, old) ==
    IF v.t = "string" THEN [val |-> v.s, err |-> FALSE]
    ELSE IF v.t = "null" THEN [val |-> old, err |-> FALSE]
    ELSE [val |-> old, err |-> TRUE]

\* A JSON value stored into an int field.
literalInt(v, old) ==
    IF v.t = "number" THEN [val |-> v.n, err |-> FALSE]
    ELSE IF v.t = "null" THEN [val |-> old, err |-> FALSE]
    ELSE [val |-> old, err |-> TRUE]

\* The field of a JSON object named by a struct tag (null when absent: both
\* leave the Go field alone).
member(o, key) == IF key \in DOMAIN o THEN o[key] ELSE JNull

\* One element of the translations array into a translation struct.
decodeTranslation(v) ==
    IF v.t = "object"
    THEN LET d == literalString(member(v.o, "detected_source_language"), "")
             x == literalString(member(v.o, "text"), "")
         IN [val |-> [DetectedSourceLanguage |-> d.val, Text |-> x.val],
             err |-> d.err \/ x.err]
    ELSE [val |-> ZeroTranslation, err |-> v.t # "null"]

\* A JSON value into the []translation slice: one element per array element,
\* in the array's order; a type error in one element does not stop the rest.
decodeTranslations(v, old) ==
    IF v.t = "array"
    THEN [val |-> [i \in 1..Len(v.a) |-> decodeTranslation(v.a[i]).val],
          err |-> \E i \in 1..Len(v.a) : decodeTranslation(v.a[i]).err]
    ELSE IF v.t = "null" THEN [val |-> old, err |-> FALSE]
    ELSE [val |-> old, err |-> TRUE]

\* json.Unmarshal into a pointer to a struct: {out: the struct afterwards,
\* err: whether an error is returned}. A type error is returned after the
\* rest of the document has been stored.
Unmarshal(bodyBytes, out) ==
    IF ~checkValid(bodyBytes) THEN [out |-> out, err |-> TRUE]
    ELSE IF bodyBytes.t = "null" THEN [out |-> out, err |-> FALSE]
    ELSE IF bodyBytes.t # "object" THEN [out |-> out, err |-> TRUE]
    ELSE IF out.t = "TranslateResponse"
    THEN LET r == decodeTranslations(member(bodyBytes.o, "translations"), out.Translations)
         IN [out |-> [out EXCEPT !.Translations = r.val], err |-> r.err]
    ELSE IF out.t = "AccountStatus"
    THEN LET c == literalInt(member(bodyBytes.o, "character_count"), out.CharacterCount)
             l == literalInt(member(bodyBytes.o, "character_limit"), out.CharacterLimit)
         IN [out |-> [out EXCEPT !.CharacterCount = c.val, !.CharacterLimit = l.val],
             err |-> c.err \/ l.err]
    ELSE LET m == literalString(member(bodyBytes.o, "message"), out.ErrMessage)
         IN [out |-> [out EXCEPT !.ErrMessage = m.val], err |-> m.err]

\* decodeBody hands the body to json.Unmarshal.
decodeBody(bodyBytes, outStruct) == Unmarshal(bodyBytes, outStruct)

\* json.Unmarshal into a pointer to an interface{} that replaces the value of
\* the interface instead of storing through the pointer it holds.
UnmarshalInterfaceReplaced(bodyBytes, outStruct) ==
    [out |-> outStruct, err |-> ~checkValid(bodyBytes)]

\* json.Unmarshal into a pointer to an interface{} that holds a non-nil
\* pointer to a struct (responseParse passes &outStruct): the decoder loads
\* the pointer out of the interface and stores into the struct it points to.
UnmarshalInterface(bodyBytes, outStruct) == Unmarshal(bodyBytes, outStruct)

-----------------------------------------------------------------------------
(* Errors: the message that names the error, and the provider's message    *)
(* the "Bad request" text ends with.                                       *)

NoErr == [tag |-> "nil", msg |-> ""]
Err(tag, msg) == [tag |-> tag, msg |-> msg]

-----------------------------------------------------------------------------
(* URLs. A path is the sequence of its segments, a raw query the sequence  *)
(* of its key=value pairs, url.Values a map from key to the list of its    *)
(* values.                                                                 *)

\* The keys of the query strings, in the byte order Encode sorts them in.
KeyOrder == <<"auth_key", "source_lang", "target_lang", "text", "x">>
Keys == {KeyOrder[i] : i \in 1..Len(KeyOrder)}

RECURSIVE valuesOf(_, _)
valuesOf(rawQuery, key) ==
    IF rawQuery = <<>> THEN <<>>
    ELSE IF Head(rawQuery)[1] = key
         THEN <<Head(rawQuery)[2]>> \o valuesOf(Tail(rawQuery), key)
         ELSE valuesOf(Tail(rawQuery), key)

\* URL.Query: the raw query parsed into Values, each key's values in the
\* order they stand in the query.
Query(u) == [k \in Keys |-> valuesOf(u.RawQuery, k)]

\* Values.Add appends to the values the key already has.
Add(q, key, value) == [q EXCEPT ![key] = Append(@, value)]

RECURSIVE pairs(_, _)
pairs(key, values) ==
    IF values = <<>> THEN <<>>
    ELSE <<<<key, Head(values)>>>> \o pairs(key, Tail(values))

RECURSIVE encodeFrom(_, _)
encodeFrom(q, i) ==
    IF i > Len(KeyOrder) THEN <<>>
    ELSE pairs(KeyOrder[i], q[KeyOrder[i]]) \o encodeFrom(q, i + 1)

\* Values.Encode: key=value pairs sorted by key.
Encode(q) == encodeFrom(q, 1)

\* path.Join of clean elements: the non-empty elements in order.
Join(base, elems) == base \o elems

ZeroURL == [Path |-> <<>>, RawQuery |-> <<>>]

\* The base URLs a Client is constructed with.
BaseURLs ==
    { [Path |-> <<>>, RawQuery |-> <<>>],
      [Path |-> <<"api">>, RawQuery |-> <<>>],
      [Path |-> <<>>, RawQuery |-> << <<"x", "1">> >>],
      [Path |-> <<"api">>, RawQuery |-> << <<"text", "t0">>, <<"auth_key", "old">> >>] }

\* New: the parsed base URL, http.DefaultClient, and the caller's logger or
\* a default one.
New(baseURL, logger) ==
    [BaseURL |-> baseURL,
     HTTPClient |-> "http.DefaultClient",
     Logger |-> IF logger = "nil" THEN "log.New" ELSE logger]

\* reqURL := c.BaseURL, the pointer: the Client's URL gets the call's path.
SetPathAliased(c, name) ==
    LET u == [c.BaseURL EXCEPT !.Path = Join(c.BaseURL.Path, <<"v2", name>>)]
    IN [reqURL |-> u, client |-> [c EXCEPT !.BaseURL = u]]

\* reqURL := *c.BaseURL; reqURL.Path = path.Join(reqURL.Path, "v2", name).
\* reqURL is a copy of the URL struct: the Client's URL keeps its path.
\* {reqURL: the call's URL, client: the Client afterwards}.
SetPath(c, name) ==
    [reqURL |-> [c.BaseURL EXCEPT !.Path = Join(c.BaseURL.Path, <<"v2", name>>)],
     client |-> c]

NoReq == [Method |-> "", URL |-> ZeroURL, UserAgent |-> ""]

\* http.NewRequest(POST, reqURL.String(), nil) with the User-Agent header.
NewRequest(reqURL) ==
    [Method |-> "POST", URL |-> reqURL, UserAgent |-> "Deepl-Go-Client"]

-----------------------------------------------------------------------------
(* The credential.                                                         *)

\* The states of DEEPL_API_KEY in the process environment.
Envs ==
    { [ok |-> FALSE, val |-> ""], [ok |-> TRUE, val |-> ""],
      [ok |-> TRUE, val |-> "K1"], [ok |-> TRUE, val |-> "K2"] }

\* os.LookupEnv and os.Getenv on the environment e.
LookupEnv(e) == e
Getenv(e) == IF e.ok THEN e.val ELSE ""

\* getAPIKey without the check for an empty value.
getAPIKeyCheckNoEmpty(lookup) ==
    IF ~lookup.ok THEN Err("Not set API key environment", "") ELSE NoErr

\* getAPIKey, the check of the looked-up value (lines 60-67).
getAPIKeyCheck(lookup) ==
    IF ~lookup.ok THEN Err("Not set API key environment", "")
    ELSE IF lookup.val = "" THEN Err("DEEPL_API_KEY is empty", "")
    ELSE NoErr

-----------------------------------------------------------------------------
(* Responses.                                                              *)

\* ioutil.ReadAll(resp.Body) gives {bytes, err}.
NoResp == [StatusCode |-> 0, Body |-> [bytes |-> JEmpty, err |-> FALSE]]

\* The switch with the test for 5xx ahead of the case for 503.
statusErrorReordered(StatusCode, errMessage) ==
    IF StatusCode = 400 THEN Err("Bad request.", errMessage)
    ELSE IF StatusCode = 403 THEN Err("Authorization failed.", "")
    ELSE IF StatusCode = 404 THEN Err("The requested resource clould not be found.", "")
    ELSE IF StatusCode = 413 THEN Err("The request size exceeds the limit.", "")
    ELSE IF StatusCode = 429 THEN Err("Too many requests.", "")
    ELSE IF StatusCode = 456 THEN Err("Quota exceeded.", "")
    ELSE IF StatusCode >= 500 THEN Err("Internal error", "")
    ELSE IF StatusCode = 503 THEN Err("Resource currently unavailable.", "")
    ELSE Err("Unexpected error", "")

\* The cases of the switch on the status code for the statuses other than
\* 200, in the order of the source.
statusError(StatusCode, errMessage) ==
    IF StatusCode = 400 THEN Err("Bad request.", errMessage)
    ELSE IF StatusCode = 403 THEN Err("Authorization failed.", "")
    ELSE IF StatusCode = 404 THEN Err("The requested resource clould not be found.", "")
    ELSE IF StatusCode = 413 THEN Err("The request size exceeds the limit.", "")
    ELSE IF StatusCode = 429 THEN Err("Too many requests.", "")
    ELSE IF StatusCode = 456 THEN Err("Quota exceeded.", "")
    ELSE IF StatusCode = 503 THEN Err("Resource currently unavailable.", "")
    ELSE IF StatusCode >= 500 THEN Err("Internal error", "")
    ELSE Err("Unexpected error", "")

\* The decoding of the error body with its error dropped.
decodeErrorResponseIgnored(StatusCode, bodyBytes) ==
    IF StatusCode # 200 /\ len(bodyBytes) # 0
    THEN [msg |-> decodeBody(bodyBytes, ZeroErrorResponse).out.ErrMessage, err |-> FALSE]
    ELSE [msg |-> "", err |-> FALSE]

\* The decoding of the error body of a non-200 response with a body:
\* {msg: errMessage, err: whether decodeBody failed}.
decodeErrorResponse(StatusCode, bodyBytes) ==
    IF StatusCode # 200 /\ len(bodyBytes) # 0
    THEN LET d == decodeBody(bodyBytes, ZeroErrorResponse)
         IN [msg |-> d.out.ErrMessage, err |-> d.err]
    ELSE [msg |-> "", err |-> FALSE]

\* responseParse(resp, outStruct): {out: the struct outStruct points to
\* afterwards, err: the error returned}.
responseParse(resp, outStruct) ==
    IF resp.Body.err
    THEN [out |-> outStruct, err |-> Err("Failed to read response", "")]
    ELSE LET e == decodeErrorResponse(resp.StatusCode, resp.Body.bytes)
         IN IF e.err
            THEN [out |-> outStruct, err |-> Err("Failed to decode error response", "")]
            ELSE IF resp.StatusCode = 200
            THEN LET d == UnmarshalInterface(resp.Body.bytes, outStruct)
                 IN [out |-> d.out,
                     err |-> IF d.err THEN Err("Failed to parse Json", "") ELSE NoErr]
            ELSE [out |-> outStruct, err |-> statusError(resp.StatusCode, e.msg)]

\* The end of GetAccountStatus and TranslateSentence (deepl.go): nil and the
\* error, or the pointer to the decoded struct and no error.
parseAndReturn(resp, outStruct) ==
    LET r == responseParse(resp, outStruct)
    IN IF r.err # NoErr THEN [result |-> Nil, err |-> r.err]
       ELSE [result |-> r.out, err |-> NoErr]

\* The end of the TranslateSentence of part_002, which reads and classifies
\* the response inline and returns &transResp on every path.
parseInline(resp, transResp) ==
    IF resp.Body.err
    THEN [result |-> transResp, err |-> Err("Failed to read response", "")]
    ELSE LET e == decodeErrorResponse(resp.StatusCode, resp.Body.bytes)
         IN IF e.err
            THEN [result |-> transResp,
                  err |-> Err("Failed to decode error response", "")]
            ELSE IF resp.StatusCode = 200
            THEN LET d == decodeBody(resp.Body.bytes, transResp)
                 IN [result |-> d.out,
                     err |-> IF d.err THEN Err("Failed to parse Json", "") ELSE NoErr]
            ELSE [result |-> transResp, err |-> statusError(resp.StatusCode, e.msg)]

-----------------------------------------------------------------------------
(* The calls. calls[p] holds the locals of the call goroutine p is in.     *)

IdleCall ==
    [pc |-> "idle", op |-> "", text |-> "", sourceLang |-> "", targetLang |-> "",
     ctx |-> "live", lookup |-> [ok |-> FALSE, val |-> ""], apiKey |-> "", reqURL |-> ZeroURL, req |-> NoReq,
     sent |-> 0, resp |-> NoResp, out |-> Nil, result |-> Nil, err |-> NoErr]

\* The arguments callers pass.
Texts == {"hello"}
SourceLangs == {"EN"}
TargetLangs == {"JA", ""}
Loggers == {"nil", "logger"}

\* The responses of the provider: status and body.
Translation(lang, text) ==
    JObj([detected_source_language |-> JStr(lang), text |-> JStr(text)])
TranslateBody1 == JObj([translations |-> JArr(<<Translation("EN", "konnichiwa")>>)])
TranslateBody2 ==
    JObj([translations |-> JArr(<<Translation("EN", "a"), Translation("DE", "b")>>)])
PartialBody ==
    JObj([translations |->
            JArr(<<Translation("EN", "a"),
                   JObj([detected_source_language |-> JStr("EN"), text |-> JNum(5)])>>)])
UsageBody ==
    JObj([character_count |-> JNum(30315), character_limit |-> JNum(1000000)])
MessageBody == JObj([message |-> JStr("Bad request.")])
BadMessageBody == JObj([message |-> JNum(5)])

Statuses == {200, 201, 400, 403, 404, 413, 418, 429, 456, 500, 503, 504}
Bodies ==
    {JEmpty, JInvalid, JNull, MessageBody, BadMessageBody, TranslateBody1,
     TranslateBody2, PartialBody, UsageBody}
Responses == Statuses \X Bodies

\* The fewer responses of the specification of concurrent calls.
ConcResponses == {<<200, UsageBody>>, <<403, JEmpty>>}

\* What an operation returns with an error before responseParse: nil, or in
\* part_002 the pointer to its still empty transResp.
ErrResult(l) == IF l.op = "TranslateSentence@part_002" THEN l.out ELSE Nil

\* getAPIKey failed (deepl.go 139-142, 183-186; part_002 73-80).
Rejected(l, e) == [l EXCEPT !.pc = "done", !.err = e, !.result = ErrResult(l)]

\* The entry of an operation up to the check of the looked-up credential.
Enter(p, op, name, outStruct, text, sourceLang, targetLang) ==
    /\ calls[p].pc = "idle"
    /\ LET u == SetPath(client, name)
           lookup == LookupEnv(env)
           e == getAPIKeyCheck(lookup)
           l == [IdleCall EXCEPT !.op = op, !.text = text, !.sourceLang = sourceLang,
                                 !.targetLang = targetLang, !.out = outStruct,
                                 !.reqURL = u.reqURL, !.lookup = lookup]
       IN /\ client' = u.client
          /\ calls' = [calls EXCEPT ![p] =
                          IF e # NoErr THEN Rejected(l, e)
                          ELSE [l EXCEPT !.pc = "Getenv"]]
    /\ UNCHANGED env

GetAccountStatus(p) ==
    Enter(p, "GetAccountStatus", "usage", ZeroAccountStatus, "", "", "")

TranslateSentence(p, text, sourceLang, targetLang) ==
    Enter(p, "TranslateSentence", "translate", ZeroTranslateResponse,
          text, sourceLang, targetLang)

TranslateSentenceInline(p, text, sourceLang, targetLang) ==
    Enter(p, "TranslateSentence@part_002", "translate", ZeroTranslateResponse,
          text, sourceLang, targetLang)

\* The query with the two language codes under each other's key.
addParamsSwapped(l, apiKey) ==
    LET q == Add(Query(l.reqURL), "auth_key", apiKey)
    IN IF l.op = "GetAccountStatus" THEN q
       ELSE Add(Add(Add(q, "text", l.text), "target_lang", l.sourceLang),
                "source_lang", l.targetLang)

\* The query of the request: the base URL's values, then the credential and,
\* for a translation, the arguments.
addParams(l, apiKey) ==
    LET q == Add(Query(l.reqURL), "auth_key", apiKey)
    IN IF l.op = "GetAccountStatus" THEN q
       ELSE Add(Add(Add(q, "text", l.text), "target_lang", l.targetLang),
                "source_lang", l.sourceLang)

\* os.Getenv at the end of getAPIKey, and the building of the request.
BuildRequest(p) ==
    /\ calls[p].pc = "Getenv"
    /\ LET l == calls[p]
           apiKey == Getenv(env)
           u == [l.reqURL EXCEPT !.RawQuery = Encode(addParams(l, apiKey))]
       IN calls' = [calls EXCEPT ![p] =
                       [l EXCEPT !.pc = "Do", !.apiKey = apiKey, !.reqURL = u,
                                 !.req = NewRequest(u)]]
    /\ UNCHANGED <<client, env>>

\* A failed Do that is tried again.
DoFailedRetry(l) == [l EXCEPT !.pc = "Do"]

\* HTTPClient.Do returned an error: the call returns it.
DoFailed(l) ==
    [l EXCEPT !.pc = "done", !.err = Err("Failed to send http request", ""),
              !.result = ErrResult(l)]

\* HTTPClient.Do starts: a cancelled context fails it before anything is
\* sent, otherwise the request goes out on the transport.
DoSend(p) ==
    /\ calls[p].pc = "Do"
    /\ calls' = [calls EXCEPT ![p] =
                    IF @.ctx = "cancelled" THEN DoFailed(@)
                    ELSE [@ EXCEPT !.pc = "inflight", !.sent = @ + 1]]
    /\ UNCHANGED <<client, env>>

\* The transport fails, or the context was cancelled while the request was
\* in flight.
DoError(p) ==
    /\ calls[p].pc = "inflight"
    /\ calls' = [calls EXCEPT ![p] = DoFailed(@)]
    /\ UNCHANGED <<client, env>>

\* The status line and headers of a response arrive: Do returns it.
DoResponse(p, responses) ==
    /\ calls[p].pc = "inflight"
    /\ calls[p].ctx = "live"
    /\ \E r \in responses :
          calls' = [calls EXCEPT ![p] =
                       [@ EXCEPT !.pc = "responseParse",
                                 !.resp = [StatusCode |-> r[1],
                                           Body |-> [bytes |-> r[2], err |-> FALSE]]]]
    /\ UNCHANGED <<client, env>>

\* A read of the body that the context does not bound.
ReadAllIgnoresCtx(l, fails) ==
    [l.resp EXCEPT !.Body = IF fails THEN [bytes |-> JEmpty, err |-> TRUE] ELSE @]

\* ioutil.ReadAll on the body of a response: it fails when the context is
\* cancelled before the body is read, and may fail with the connection.
ReadAll(l, fails) ==
    [l.resp EXCEPT !.Body = IF l.ctx = "cancelled" \/ fails
                            THEN [bytes |-> JEmpty, err |-> TRUE]
                            ELSE @]

\* The rest of the call: the body is read and the response classified.
Finish(l, resp) ==
    LET r == IF l.op = "TranslateSentence@part_002" THEN parseInline(resp, l.out)
             ELSE parseAndReturn(resp, l.out)
    IN [l EXCEPT !.pc = "done", !.resp = resp, !.result = r.result, !.err = r.err]

ResponseParse(p) ==
    /\ calls[p].pc = "responseParse"
    /\ \E fails \in BOOLEAN :
          calls' = [calls EXCEPT ![p] = Finish(@, ReadAll(@, fails))]
    /\ UNCHANGED <<client, env>>

\* The caller takes the result; the goroutine may call again.
Return(p) ==
    /\ calls[p].pc = "done"
    /\ calls' = [calls EXCEPT ![p] = IdleCall]
    /\ UNCHANGED <<client, env>>

\* The caller's context is cancelled or times out during a call.
Cancel(p) ==
    /\ calls[p].pc \in {"Getenv", "Do", "inflight", "responseParse"}
    /\ calls[p].ctx = "live"
    /\ calls' = [calls EXCEPT ![p].ctx = "cancelled"]
    /\ UNCHANGED <<client, env>>

\* Another goroutine sets, empties or unsets DEEPL_API_KEY.
SetEnv(e) ==
    /\ e # env
    /\ env' = e
    /\ UNCHANGED <<client, calls>>

-----------------------------------------------------------------------------
(* Specifications.                                                         *)

Init ==
    /\ client \in {New(u, lg) : u \in BaseURLs, lg \in Loggers}
    /\ env \in Envs
    /\ calls = [p \in Callers |-> IdleCall]

NoCallActive == \A q \in Callers : calls[q].pc = "idle"

\* Calls made one at a time, by any of the callers.
Next ==
    \/ \E p \in Callers : NoCallActive /\ GetAccountStatus(p)
    \/ \E p \in Callers, t \in Texts, s \in SourceLangs, g \in TargetLangs :
          NoCallActive /\ TranslateSentence(p, t, s, g)
    \/ \E p \in Callers, t \in Texts, s \in SourceLangs, g \in TargetLangs :
          NoCallActive /\ TranslateSentenceInline(p, t, s, g)
    \/ \E p \in Callers : BuildRequest(p)
    \/ \E p \in Callers : DoSend(p)
    \/ \E p \in Callers : DoError(p)
    \/ \E p \in Callers : DoResponse(p, Responses)
    \/ \E p \in Callers : ResponseParse(p)
    \/ \E p \in Callers : Return(p)
    \/ \E p \in Callers : Cancel(p)
    \/ \E e \in Envs : SetEnv(e)

Spec == Init /\ [][Next]_vars

\* Calls that overlap on the one Client, with fewer base URLs, credentials
\* and responses.
ConcBaseURLs == {u \in BaseURLs : u.Path = <<"api">>}
ConcEnvs == {e \in Envs : e.val # "K2"}

InitConc ==
    /\ client \in {New(u, "nil") : u \in ConcBaseURLs}
    /\ env \in ConcEnvs
    /\ calls = [p \in Callers |-> IdleCall]

NextConc ==
    \/ \E p \in Callers : GetAccountStatus(p)
    \/ \E p \in Callers, t \in Texts, s \in SourceLangs :
          TranslateSentence(p, t, s, "JA")
    \/ \E p \in Callers : BuildRequest(p)
    \/ \E p \in Callers : DoSend(p)
    \/ \E p \in Callers : DoError(p)
    \/ \E p \in Callers : DoResponse(p, ConcResponses)
    \/ \E p \in Callers : ResponseParse(p)
    \/ \E p \in Callers : Return(p)
    \/ \E e \in ConcEnvs : SetEnv(e)

SpecConc == InitConc /\ [][NextConc]_vars

-----------------------------------------------------------------------------
(* The properties.                                                         *)

\* The category of an error in the taxonomy of the specification.
Category(e) ==
    IF e = NoErr THEN "none"
    ELSE IF e.tag \in {"Not set API key environment", "DEEPL_API_KEY is empty"}
    THEN "ConfigError"
    ELSE IF e.tag \in {"Failed to send http request", "Failed to read response"}
    THEN "NetworkError"
    ELSE IF e.tag \in {"Failed to decode error response", "Failed to parse Json"}
    THEN "DecodeError"
    ELSE "ProviderError"

\* The error the table of the specification gives a status other than 200.
TableError(status) ==
    CASE status = 400 -> "Bad request."
      [] status = 403 -> "Authorization failed."
      [] status = 404 -> "The requested resource clould not be found."
      [] status = 413 -> "The request size exceeds the limit."
      [] status = 429 -> "Too many requests."
      [] status = 456 -> "Quota exceeded."
      [] status = 503 -> "Resource currently unavailable."
      [] status >= 500 /\ status # 503 -> "Internal error"
      [] OTHER -> "Unexpected error"

\* The message field of a provider error body.
ProviderMessage(body) ==
    IF body.t = "object" /\ "message" \in DOMAIN body.o /\ body.o["message"].t = "string"
    THEN body.o["message"].s
    ELSE ""

\* The body is a provider error object, as far as its message goes.
IsErrorObject(body) ==
    \/ body.t = "null"
    \/ /\ body.t = "object"
       /\ "message" \in DOMAIN body.o => body.o["message"].t \in {"string", "null"}

\* The call of p ended after its response was received and its body read.
Answered(p) ==
    /\ calls[p].pc = "done"
    /\ calls[p].resp.StatusCode # 0
    /\ ~calls[p].resp.Body.err

\* The outcome of the call of p is what the table gives its status.
FollowsTable(p) ==
    LET l == calls[p]
    IN IF l.resp.StatusCode = 200
       THEN l.err.tag \in {"nil", "Failed to parse Json"}
       ELSE /\ l.err.tag = TableError(l.resp.StatusCode)
            /\ l.resp.StatusCode = 400 => l.err.msg = ProviderMessage(l.resp.Body.bytes)

\* C1: a call that finds DEEPL_API_KEY unset or empty ends with a
\* configuration error and has neither built nor sent a request.
C1_RejectedBeforeNetwork ==
    \A p \in Callers :
        (calls[p].pc # "idle" /\ (~calls[p].lookup.ok \/ calls[p].lookup.val = ""))
            => /\ calls[p].pc = "done"
               /\ Category(calls[p].err) = "ConfigError"
               /\ calls[p].sent = 0
               /\ calls[p].req = NoReq

C1_Witness ==
    \E p \in Callers :
        /\ calls[p].pc = "done"
        /\ calls[p].lookup = [ok |-> TRUE, val |-> ""]
        /\ calls[p].err.tag = "DEEPL_API_KEY is empty"
        /\ calls[p].sent = 0

\* C2, as claimed: the outcome of every answered call is the one the table
\* gives its status code, whatever the body.
C2_StatusAloneDecides == \A p \in Callers : Answered(p) => FollowsTable(p)

\* C2, amended: the outcome of an answered call is the one the table gives
\* its status code when the status is 200 or the body is empty or a provider
\* error object.
C2_TableWhenBodyDecodes ==
    \A p \in Callers :
        (/\ Answered(p)
         /\ \/ calls[p].resp.StatusCode = 200
            \/ calls[p].resp.Body.bytes = JEmpty
            \/ IsErrorObject(calls[p].resp.Body.bytes))
            => FollowsTable(p)

C2_Witness ==
    \E p \in Callers :
        /\ Answered(p)
        /\ calls[p].resp.StatusCode = 503
        /\ calls[p].resp.Body.bytes = MessageBody
        /\ calls[p].err.tag = "Resource currently unavailable."

\* C3: a non-200 response whose non-empty body is not a provider error
\* object ends in the error of the failed decoding, whatever its status; a
\* non-200 response with an empty body ends in the error of the table.
C3_ErrorBodyDecodedFirst ==
    \A p \in Callers :
        (Answered(p) /\ calls[p].resp.StatusCode # 200)
            => IF calls[p].resp.Body.bytes = JEmpty
               THEN calls[p].err.tag = TableError(calls[p].resp.StatusCode)
               ELSE ~IsErrorObject(calls[p].resp.Body.bytes)
                       => calls[p].err.tag = "Failed to decode error response"

C3_Witness ==
    \E p \in Callers :
        /\ Answered(p)
        /\ calls[p].resp.StatusCode = 403
        /\ calls[p].resp.Body.bytes = JInvalid
        /\ calls[p].err.tag = "Failed to decode error response"

\* C4: a call ends with a result and no error, or with an error and a result
\* that is nil or holds nothing decoded from the response.
C4_NoPartialResults ==
    \A p \in Callers :
        calls[p].pc = "done"
            => \/ calls[p].err = NoErr /\ calls[p].result # Nil
               \/ /\ calls[p].err # NoErr
                  /\ calls[p].result \in {Nil, ZeroTranslateResponse, ZeroAccountStatus}

\* The pairs of a well-formed translations body, and what makes it so.
IsTranslation(v) ==
    /\ v.t = "object"
    /\ DOMAIN v.o = {"detected_source_language", "text"}
    /\ \A k \in DOMAIN v.o : v.o[k].t = "string"
WellFormedTranslations(body) ==
    /\ body.t = "object"
    /\ "translations" \in DOMAIN body.o
    /\ body.o["translations"].t = "array"
    /\ \A i \in 1..Len(body.o["translations"].a) : IsTranslation(body.o["translations"].a[i])
WellFormedUsage(body) ==
    /\ body.t = "object"
    /\ DOMAIN body.o = {"character_count", "character_limit"}
    /\ \A k \in DOMAIN body.o : body.o[k].t = "number"

\* C5: a 200 response with a well-formed translations array gives the result
\* its pairs, as many and in the same order, and a 200 usage response gives
\* the AccountStatus its two counts.
C5_DecodedAsSent ==
    \A p \in Callers :
        (Answered(p) /\ calls[p].resp.StatusCode = 200)
            => LET l == calls[p]
                   body == l.resp.Body.bytes
               IN /\ (l.op # "GetAccountStatus" /\ WellFormedTranslations(body))
                        => /\ l.err = NoErr
                           /\ Len(l.result.Translations) = Len(body.o["translations"].a)
                           /\ \A i \in 1..Len(body.o["translations"].a) :
                                 /\ l.result.Translations[i].DetectedSourceLanguage
                                       = body.o["translations"].a[i].o["detected_source_language"].s
                                 /\ l.result.Translations[i].Text
                                       = body.o["translations"].a[i].o["text"].s
                  /\ (l.op = "GetAccountStatus" /\ WellFormedUsage(body))
                        => /\ l.err = NoErr
                           /\ l.result.CharacterCount = body.o["character_count"].n
                           /\ l.result.CharacterLimit = body.o["character_limit"].n

C5_Witness ==
    \E p \in Callers :
        /\ Answered(p)
        /\ calls[p].op = "TranslateSentence"
        /\ calls[p].resp = [StatusCode |-> 200, Body |-> [bytes |-> TranslateBody2, err |-> FALSE]]
        /\ calls[p].result.Translations =
              <<[DetectedSourceLanguage |-> "EN", Text |-> "a"],
                [DetectedSourceLanguage |-> "DE", Text |-> "b"]>>

\* The values a call adds to the query, by key.
Added(l) ==
    [k \in Keys |->
        IF k = "auth_key" THEN <<l.apiKey>>
        ELSE IF l.op = "GetAccountStatus" THEN <<>>
        ELSE IF k = "text" THEN <<l.text>>
        ELSE IF k = "source_lang" THEN <<l.sourceLang>>
        ELSE IF k = "target_lang" THEN <<l.targetLang>>
        ELSE <<>>]

EndpointOf(l) == IF l.op = "GetAccountStatus" THEN "usage" ELSE "translate"

\* C6, as claimed: a sent request is a POST to <base>/v2/<endpoint> whose
\* query holds exactly the parameters the call adds, once each.
C6_ExactlyTheParameters ==
    \A p \in Callers :
        calls[p].sent > 0
            => /\ calls[p].req.Method = "POST"
               /\ calls[p].req.URL.Path = Join(client.BaseURL.Path, <<"v2", EndpointOf(calls[p])>>)
               /\ Query(calls[p].req.URL) = Added(calls[p])

\* C6, amended: a sent request is a POST to <base>/v2/<endpoint> whose query
\* holds, for each key, the values of the base URL's query followed by the
\* value the call adds.
C6_BaseQueryThenParameters ==
    \A p \in Callers :
        calls[p].sent > 0
            => /\ calls[p].req.Method = "POST"
               /\ calls[p].req.URL.Path = Join(client.BaseURL.Path, <<"v2", EndpointOf(calls[p])>>)
               /\ \A k \in Keys :
                     Query(calls[p].req.URL)[k] = Query(client.BaseURL)[k] \o Added(calls[p])[k]
               /\ client.BaseURL.RawQuery = <<>> => Query(calls[p].req.URL) = Added(calls[p])

C6_Witness ==
    \E p \in Callers :
        /\ calls[p].sent > 0
        /\ calls[p].op = "TranslateSentence"
        /\ calls[p].targetLang = ""
        /\ client.BaseURL.RawQuery # <<>>
        /\ calls[p].req.URL.RawQuery =
              << <<"auth_key", "old">>, <<"auth_key", "K1">>, <<"source_lang", "EN">>,
                 <<"target_lang", "">>, <<"text", "t0">>, <<"text", "hello">> >>

C8_AtMostOneRequest ==
    \A p \in Callers :
        /\ calls[p].sent <= 1
        /\ calls[p].err # NoErr => calls[p].pc = "done"

C8_Witness ==
    \E p \in Callers :
        /\ calls[p].pc = "done"
        /\ calls[p].sent = 1
        /\ calls[p].err.tag = "Failed to send http request"

\* C9: no step of any call, alone or among overlapping calls, changes the
\* Client: its base URL with path and query, its transport, its logger.
C9_ClientUnchanged == [][client' = client]_vars

C9_Witness ==
    \E p, q \in Callers :
        /\ p # q
        /\ calls[p].op = "TranslateSentence" /\ calls[p].pc = "done" /\ calls[p].err = NoErr
        /\ calls[q].op = "GetAccountStatus" /\ calls[q].pc = "inflight"

\* C10: a sent request carries a credential that is not empty and is the
\* value the call's check looked up.
C10_SentKeyIsValidated ==
    \A p \in Callers :
        calls[p].sent > 0
            => LET keys == Query(calls[p].req.URL)["auth_key"]
               IN /\ keys[Len(keys)] # ""
                  /\ keys[Len(keys)] = calls[p].lookup.val

====
